---------------------------- MODULE Spec2Model ----------------------------
(***************************************************************************)
(* buildsys (tools/buildsys/src/main.rs): one build invocation, either the *)
(* package pipeline (build_package) or the variant pipeline                *)
(* (build_variant), as a state machine.  One action per statement group of *)
(* the source; the collaborators (manifest and spec providers, lookaside   *)
(* cache, Go module vendorer, project crawler, Docker backend, the file    *)
(* system) answer nondeterministically.                                    *)
(***************************************************************************)
EXTENDS Integers, Sequences, FiniteSets, TLC

VARIABLES
    pc,               \* position of the process in main/run/build_*
    args,             \* the parsed command line: command and requested arch
    err,              \* the error being propagated (NoErr when none)
    exit_code,        \* None while running, Some(0) / Some(1) once main ended
    stdout,           \* the cargo: lines printed so far, in order
    reads,            \* the input paths consumed so far
    variant_manifest, \* build_package: ManifestInfo of the variant
    manifest,         \* ManifestInfo of the crate being built
    image_features,   \* build_package: Option<HashSet<ImageFeature>>
    fetched,          \* LookasideCache::fetch has been called
    vend_queue,       \* GoMod::vendor calls still to make
    vendored,         \* number of GoMod::vendor calls made
    crawled,          \* ProjectInfo::crawl has been called
    backend,          \* None, or the DockerBuild that was built
    dir_listing,      \* defaults.d as the file system lists it
    walker,           \* the entries WalkDir still has to yield
    cur,              \* the entry of the current loop iteration
    frag_data,        \* what fs::read_to_string returned, per fragment name
    defaults,         \* the accumulator of generate_defaults_toml
    prev_file,        \* build/tools/defaults.toml as the run found it
    file,             \* build/tools/defaults.toml now
    wbuf              \* the part of the serialized data not yet written

vars == <<pc, args, err, exit_code, stdout, reads, variant_manifest, manifest,
          image_features, fetched, vend_queue, vendored, crawled, backend,
          dir_listing, walker, cur, frag_data, defaults, prev_file, file, wbuf>>

pkgVars == <<variant_manifest, image_features, fetched, vend_queue, vendored, crawled>>

defVars == <<dir_listing, walker, cur, frag_data, defaults, file, wbuf>>

(***************************************************************************)
(* Bounds of the model.                                                    *)
(***************************************************************************)
\* longest file list a collaborator (crawler, spec provider) returns
MaxPaths == 1

\* most entries the defaults directory holds
MaxEntries == 3

(***************************************************************************)
(* Option<T>                                                               *)
(***************************************************************************)
None == [none |-> TRUE]

Some(v) == [some |-> v]

IsSome(o) == "some" \in DOMAIN o

Option(S) == {None} \cup {Some(v) : v \in S}

\* all orders in which a set can be iterated
Orders(S) == {s \in [1..Cardinality(S) -> S] : \A i, j \in 1..Cardinality(S) : s[i] = s[j] => i = j}

Range(s) == {s[i] : i \in DOMAIN s}

Count(s, x) == Cardinality({i \in DOMAIN s : s[i] = x})

(***************************************************************************)
(* Values of the inputs.                                                   *)
(***************************************************************************)
\* the architectures a build can request, and the sets a variant can declare
Arches == {"x86_64", "armv7"}

SupportedSets == {{}, {"arm64", "x86_64"}}

\* image features; image_features() and package_features() give sets of them
Features == {"a", "b"}

SensitivityTypes == {"Platform", "Runtime", "Family", "Flavor"}

VariantSensitivities == {[any |-> FALSE], [any |-> TRUE]} \cup {[specific |-> k] : k \in SensitivityTypes}

\* an external file without bundle-modules, and one bundling Go modules
PlainFile == [bundle_modules |-> None]

GoFile == [bundle_modules |-> Some(<<"Go">>)]

ExternalFileLists == {<<PlainFile, GoFile>>}

\* the files a crawl or a spec can name
PathPool == <<"a.c", "fix.patch">>

\* sub-lists of PathPool of at most MaxPaths paths
PathLists == {SelectSeq(PathPool, LAMBDA p : p \in S) : S \in {T \in SUBSET Range(PathPool) : Cardinality(T) <= MaxPaths}}

manifest_file == "Cargo.toml"

\* root_dir.join("variants").join(&args.variant).join(manifest_file)
variant_manifest_path == "variants/v/" \o manifest_file

cargo_package_name == "pkg"

NoErr == [kind |-> "none"]

Error(k) == [kind |-> k]

RerunIfChanged(p) == [k |-> "rerun-if-changed", v |-> p]

RerunIfEnvChanged(e) == [k |-> "rerun-if-env-changed", v |-> e]

Warning(m) == [k |-> "warning", v |-> m]

(***************************************************************************)
(* main, run                                                               *)
(***************************************************************************)
\* an error that is recorded without returning
Fail_continue(e) ==
    /\ err' = e
    /\ pc' = pc

\* an error returned with `?`: it propagates to main, nothing else runs
Fail(e) ==
    /\ err' = e
    /\ pc' = "exit"

Goto(l) ==
    /\ pc' = l
    /\ err' = err

\* run: the dispatch on the command.  The lines args::rerun_for_envs prints for
\* the environment variables of the command line are not part of stdout here.
Run ==
    /\ pc = "run"
    /\ Goto(IF args.command = "BuildPackage" THEN "pkg_begin" ELSE "var_begin")
    /\ UNCHANGED <<args, exit_code, stdout, reads, manifest, backend, prev_file>>
    /\ UNCHANGED pkgVars
    /\ UNCHANGED defVars

\* main: print the error and exit(1), or return
Exit ==
    /\ pc = "exit"
    /\ pc' = "done"
    /\ exit_code' = Some(IF err = NoErr THEN 0 ELSE 1)
    /\ UNCHANGED <<args, err, stdout, reads, manifest, backend, prev_file>>
    /\ UNCHANGED pkgVars
    /\ UNCHANGED defVars

(***************************************************************************)
(* supported_arch                                                          *)
(***************************************************************************)
\* supported_arch without the ensure!
supported_arch_open(m, arch, listed) == NoErr

\* the error supported_arch returns for this manifest and arch, or NoErr
supported_arch(m, arch, listed) ==
    IF IsSome(m.supported_arches) /\ arch \notin m.supported_arches.some
    THEN [kind |-> "UnsupportedArch", arch |-> arch, supported_arches |-> listed]
    ELSE NoErr

(***************************************************************************)
(* build_package                                                           *)
(***************************************************************************)
PkgEmitManifest ==
    /\ pc = "pkg_begin"
    /\ stdout' = Append(stdout, RerunIfChanged(manifest_file))
    /\ Goto("pkg_variant_manifest")
    /\ UNCHANGED <<args, exit_code, reads, manifest, backend, prev_file>>
    /\ UNCHANGED pkgVars
    /\ UNCHANGED defVars

\* ManifestInfo::new(variant_manifest_path)
PkgReadVariantManifest ==
    /\ pc = "pkg_variant_manifest"
    /\ \/ /\ Fail(Error("ManifestParse"))
          /\ UNCHANGED <<variant_manifest, reads>>
       \/ /\ \E sa \in Option(SupportedSets), f \in Option(SUBSET Features) :
                variant_manifest' = Some([supported_arches |-> sa, image_features |-> f])
          /\ reads' = reads \cup {variant_manifest_path}
          /\ Goto("pkg_arch")
    /\ UNCHANGED <<args, exit_code, stdout, manifest, backend, prev_file>>
    /\ UNCHANGED <<image_features, fetched, vend_queue, vendored, crawled>>
    /\ UNCHANGED defVars

\* supported_arch(&variant_manifest, arch)?; then variant_manifest.image_features()
PkgSupportedArch ==
    /\ pc = "pkg_arch"
    /\ LET m == variant_manifest.some IN
       \E listed \in (IF IsSome(m.supported_arches) THEN Orders(m.supported_arches.some) ELSE {<<>>}) :
          LET e == supported_arch(m, args.arch, listed) IN
          IF e # NoErr
          THEN Fail(e) /\ UNCHANGED image_features
          ELSE Goto("pkg_manifest") /\ image_features' = m.image_features
    /\ UNCHANGED <<args, exit_code, stdout, reads, manifest, backend, prev_file>>
    /\ UNCHANGED <<variant_manifest, fetched, vend_queue, vendored, crawled>>
    /\ UNCHANGED defVars

\* ManifestInfo::new(cargo_manifest_dir.join(manifest_file))
PkgReadManifest ==
    /\ pc = "pkg_manifest"
    /\ \/ /\ Fail(Error("ManifestParse"))
          /\ UNCHANGED <<manifest, reads>>
       \/ /\ \E pf \in Option(SUBSET Features),
                vs \in Option(VariantSensitivities),
                ef \in Option(ExternalFileLists),
                sg \in Option({<<"g">>}),
                pn \in Option({"ovr"}) :
                manifest' = Some([package_features |-> pf, variant_sensitive |-> vs,
                                  external_files |-> ef, source_groups |-> sg,
                                  package_name |-> pn])
          /\ reads' = reads \cup {manifest_file}
          /\ Goto("pkg_feature_env")
    /\ UNCHANGED <<args, exit_code, stdout, backend, prev_file>>
    /\ UNCHANGED pkgVars
    /\ UNCHANGED defVars

\* the name of the environment variable of one image feature
feature_env(package_feature) == "BUILDSYS_VARIANT_IMAGE_FEATURE_" \o package_feature

\* the loop printing only for the features the variant has switched on
feature_signals_ambient(order) ==
    LET on == SelectSeq(order, LAMBDA f : IsSome(image_features) /\ f \in image_features.some)
    IN  [i \in DOMAIN on |-> RerunIfEnvChanged(feature_env(on[i]))]

\* the lines the loop over package_features prints, iterating in this order
feature_signals(order) == [i \in DOMAIN order |-> RerunIfEnvChanged(feature_env(order[i]))]

PkgEmitFeatureEnv ==
    /\ pc = "pkg_feature_env"
    /\ LET package_features == manifest.some.package_features IN
       IF IsSome(package_features)
       THEN \E order \in Orders(package_features.some) :
               stdout' = stdout \o feature_signals(order)
       ELSE stdout' = stdout
    /\ Goto("pkg_filter")
    /\ UNCHANGED <<args, exit_code, reads, manifest, backend, prev_file>>
    /\ UNCHANGED pkgVars
    /\ UNCHANGED defVars

\* the block without its `None => image_features.clear()` arm
retain_features_keep(features, package_features) ==
    IF IsSome(features) /\ IsSome(package_features)
    THEN Some({k \in features.some : k \in package_features.some})
    ELSE features

\* image_features after the `if let Some(image_features) = &mut image_features` block
retain_features(features, package_features) ==
    IF IsSome(features)
    THEN IF IsSome(package_features)
         THEN Some({k \in features.some : k \in package_features.some})
         ELSE Some({})
    ELSE None

PkgFilterFeatures ==
    /\ pc = "pkg_filter"
    /\ image_features' = retain_features(image_features, manifest.some.package_features)
    /\ Goto("pkg_sensitivity")
    /\ UNCHANGED <<args, exit_code, stdout, reads, manifest, backend, prev_file>>
    /\ UNCHANGED <<variant_manifest, fetched, vend_queue, vendored, crawled>>
    /\ UNCHANGED defVars

\* the suffix printed as it is
to_uppercase_kept(s) == s

\* str::to_uppercase on the suffixes build_package passes
to_uppercase(s) ==
    CASE s = "platform" -> "PLATFORM"
      [] s = "runtime" -> "RUNTIME"
      [] s = "family" -> "FAMILY"
      [] s = "flavor" -> "FLAVOR"

\* fn emit_variant_env(suffix: Option<&str>): the line it prints
emit_variant_env(suffix) ==
    IF IsSome(suffix)
    THEN RerunIfEnvChanged("BUILDSYS_VARIANT_" \o to_uppercase(suffix.some))
    ELSE RerunIfEnvChanged("BUILDSYS_VARIANT")

\* the lines `if let Some(sensitivity) = manifest.variant_sensitive()` prints
variant_sensitive_signals(vs) ==
    IF ~IsSome(vs) THEN <<>>
    ELSE LET sensitivity == vs.some IN
         CASE sensitivity = [any |-> FALSE] -> <<>>
           [] sensitivity = [any |-> TRUE] -> <<emit_variant_env(None)>>
           [] sensitivity = [specific |-> "Platform"] -> <<emit_variant_env(Some("platform"))>>
           [] sensitivity = [specific |-> "Runtime"] -> <<emit_variant_env(Some("runtime"))>>
           [] sensitivity = [specific |-> "Family"] -> <<emit_variant_env(Some("family"))>>
           [] sensitivity = [specific |-> "Flavor"] -> <<emit_variant_env(Some("flavor"))>>

PkgSensitivity ==
    /\ pc = "pkg_sensitivity"
    /\ stdout' = stdout \o variant_sensitive_signals(manifest.some.variant_sensitive)
    /\ Goto("pkg_fetch")
    /\ UNCHANGED <<args, exit_code, reads, manifest, backend, prev_file>>
    /\ UNCHANGED pkgVars
    /\ UNCHANGED defVars

\* the GoMod::vendor calls the loops over files and bundle_modules make, in order
RECURSIVE vendor_calls(_)
vendor_calls(files) ==
    IF files = <<>> THEN <<>>
    ELSE LET f == Head(files) IN
         (IF IsSome(f.bundle_modules) THEN f.bundle_modules.some ELSE <<>>)
            \o vendor_calls(Tail(files))

\* lookaside_cache.fetch(files)
PkgFetch ==
    /\ pc = "pkg_fetch"
    /\ LET files == manifest.some.external_files IN
       IF ~IsSome(files)
       THEN Goto("pkg_crawl") /\ UNCHANGED <<fetched, vend_queue>>
       ELSE \/ /\ Fail(Error("ExternalFileFetch"))
               /\ fetched' = TRUE
               /\ UNCHANGED vend_queue
            \/ /\ fetched' = TRUE
               /\ vend_queue' = vendor_calls(files.some)
               /\ Goto(IF vendor_calls(files.some) = <<>> THEN "pkg_crawl" ELSE "pkg_vendor")
    /\ UNCHANGED <<args, exit_code, stdout, reads, manifest, backend, prev_file>>
    /\ UNCHANGED <<variant_manifest, image_features, vendored, crawled>>
    /\ UNCHANGED defVars

\* one GoMod::vendor(..)
PkgVendor ==
    /\ pc = "pkg_vendor"
    /\ vendored' = vendored + 1
    /\ vend_queue' = Tail(vend_queue)
    /\ \/ Fail(Error("GoMod"))
       \/ Goto(IF Tail(vend_queue) = <<>> THEN "pkg_crawl" ELSE "pkg_vendor")
    /\ UNCHANGED <<args, exit_code, stdout, reads, manifest, backend, prev_file>>
    /\ UNCHANGED <<variant_manifest, image_features, fetched, crawled>>
    /\ UNCHANGED defVars

\* one rerun-if-changed line per path, in order
file_signals(paths) == [i \in DOMAIN paths |-> RerunIfChanged(paths[i])]

\* ProjectInfo::crawl(&dirs) and the loop over info.files
PkgCrawl ==
    /\ pc = "pkg_crawl"
    /\ IF ~IsSome(manifest.some.source_groups)
       THEN Goto("pkg_spec") /\ UNCHANGED <<crawled, stdout, reads>>
       ELSE \/ /\ Fail(Error("ProjectCrawl"))
               /\ crawled' = TRUE
               /\ UNCHANGED <<stdout, reads>>
            \/ /\ crawled' = TRUE
               /\ \E files \in PathLists :
                     /\ stdout' = stdout \o file_signals(files)
                     /\ reads' = reads \cup Range(files)
               /\ Goto("pkg_spec")
    /\ UNCHANGED <<args, exit_code, manifest, backend, prev_file>>
    /\ UNCHANGED <<variant_manifest, image_features, fetched, vend_queue, vendored>>
    /\ UNCHANGED defVars

\* the spec file's name: the manifest's package name, else the crate's
spec_file(m) ==
    (IF IsSome(m.package_name) THEN m.package_name.some ELSE cargo_package_name) \o ".spec"

PkgEmitSpec ==
    /\ pc = "pkg_spec"
    /\ stdout' = Append(stdout, RerunIfChanged(spec_file(manifest.some)))
    /\ Goto("pkg_spec_parse")
    /\ UNCHANGED <<args, exit_code, reads, manifest, backend, prev_file>>
    /\ UNCHANGED pkgVars
    /\ UNCHANGED defVars

\* SpecInfo::new(spec) and the loops over info.sources and info.patches
PkgParseSpec ==
    /\ pc = "pkg_spec_parse"
    /\ \/ /\ Fail(Error("SpecParse"))
          /\ UNCHANGED <<stdout, reads>>
       \/ /\ \E sources \in PathLists, patches \in PathLists :
                /\ stdout' = stdout \o file_signals(sources) \o file_signals(patches)
                /\ reads' = reads \cup {spec_file(manifest.some)} \cup Range(sources) \cup Range(patches)
          /\ Goto("pkg_build")
    /\ UNCHANGED <<args, exit_code, manifest, backend, prev_file>>
    /\ UNCHANGED pkgVars
    /\ UNCHANGED defVars

\* Option::unwrap_or_default on the feature set
unwrap_or_default(o) == IF IsSome(o) THEN o.some ELSE {}

\* DockerBuild::new_package(args, &manifest, features)?.build()?
PkgBuild ==
    /\ pc = "pkg_build"
    /\ \/ /\ Fail(Error("BuilderInstantiation"))
          /\ UNCHANGED backend
       \/ /\ backend' = Some([kind |-> "package", image_features |-> unwrap_or_default(image_features)])
          /\ \/ Fail(Error("BuildAttempt"))
             \/ Goto("exit")
    /\ UNCHANGED <<args, exit_code, stdout, reads, manifest, prev_file>>
    /\ UNCHANGED pkgVars
    /\ UNCHANGED defVars

(***************************************************************************)
(* TOML: values, text, toml::from_str, toml::to_string, merge_values       *)
(***************************************************************************)
Integer(n) == [integer |-> n]

Array(a) == [array |-> a]

Table(m) == [table |-> m]

IsTable(v) == "table" \in DOMAIN v

EmptyMap == <<>>

\* one line of TOML text, `<dotted key path> = <value>`
Line(path, val) == [path |-> path, val |-> val]

\* a line that is not TOML
Garbage == [garbage |-> TRUE]

TomlErr == [toml_err |-> TRUE]

MergeErr == [merge_err |-> TRUE]

\* the keys, in the order of the table's sorted map
KeyOrder == <<"w", "x", "y", "z">>

\* toml::from_str, one key path: a key given twice, or below a value, is an error
RECURSIVE toml_insert(_, _, _)
toml_insert(t, path, val) ==
    LET k == Head(path)
        m == t.table
    IN  IF Len(path) = 1
        THEN IF k \in DOMAIN m THEN TomlErr ELSE Table(m @@ (k :> val))
        ELSE IF k \in DOMAIN m /\ ~IsTable(m[k])
             THEN TomlErr
             ELSE LET sub == toml_insert(IF k \in DOMAIN m THEN m[k] ELSE Table(EmptyMap), Tail(path), val)
                  IN  IF sub = TomlErr THEN TomlErr
                      ELSE Table((k :> sub) @@ m)

RECURSIVE toml_lines(_, _)
toml_lines(t, data) ==
    IF data = <<>> THEN t
    ELSE IF Head(data) = Garbage THEN TomlErr
    ELSE LET t2 == toml_insert(t, Head(data).path, Head(data).val)
         IN  IF t2 = TomlErr THEN TomlErr ELSE toml_lines(t2, Tail(data))

\* toml::from_str(&data): the Value the text denotes, or TomlErr
from_str(data) == toml_lines(Table(EmptyMap), data)

\* toml::to_string(&value): one line per leaf, keys in map order
RECURSIVE to_lines(_, _, _)
to_lines(v, prefix, keys) ==
    IF keys = <<>> THEN <<>>
    ELSE LET k == Head(keys) IN
         (IF k \notin DOMAIN v.table THEN <<>>
          ELSE IF IsTable(v.table[k]) THEN to_lines(v.table[k], Append(prefix, k), KeyOrder)
          ELSE <<Line(Append(prefix, k), v.table[k])>>)
            \o to_lines(v, prefix, Tail(keys))

to_string(v) == to_lines(v, <<>>, KeyOrder)

\* merge_toml::merge_values(&mut into, &from): the merged value, or MergeErr
RECURSIVE merge_values(_, _)
merge_values(into, from) ==
    IF DOMAIN into # DOMAIN from THEN MergeErr
    ELSE IF ~IsTable(from) THEN from
    ELSE LET t1 == into.table
             t2 == from.table
             merged == [k \in DOMAIN t1 \cup DOMAIN t2 |->
                          IF k \notin DOMAIN t2 THEN t1[k]
                          ELSE IF k \notin DOMAIN t1 THEN t2[k]
                          ELSE merge_values(t1[k], t2[k])]
         IN  IF \E k \in DOMAIN merged : merged[k] = MergeErr
             THEN MergeErr
             ELSE Table(merged)

\* the texts a defaults fragment can hold
FragA == <<Line(<<"x", "y">>, Integer(1)), Line(<<"x", "z">>, Integer(2))>>

FragB == <<Line(<<"x", "y">>, Integer(3))>>

FragC == <<Line(<<"w">>, Array(<<1, 2>>)), Line(<<"x", "z">>, Integer(5))>>

FragD == <<Line(<<"x">>, Integer(4))>>

FragE == <<Line(<<"w">>, Array(<<3>>))>>

FragG == <<Line(<<"w">>, Integer(1)), Garbage>>

FragmentTexts == {FragA, FragB, FragC, FragD, FragE, FragG}

(***************************************************************************)
(* The defaults directory: file names, WalkDir                             *)
(***************************************************************************)
FileNames == {"10-b.toml", "20-a.toml", "9-c.toml", "15.toml.bak"}

\* the bytes of a file name
NameBytes(n) ==
    CASE n = "10-b.toml" -> <<49, 48, 45, 98, 46, 116, 111, 109, 108>>
      [] n = "20-a.toml" -> <<50, 48, 45, 97, 46, 116, 111, 109, 108>>
      [] n = "9-c.toml" -> <<57, 45, 99, 46, 116, 111, 109, 108>>
      [] n = "15.toml.bak" -> <<49, 53, 46, 116, 111, 109, 108, 46, 98, 97, 107>>

\* Ord::cmp on byte strings: TRUE when a sorts before b
RECURSIVE bytes_less(_, _)
bytes_less(a, b) ==
    IF b = <<>> THEN FALSE
    ELSE IF a = <<>> THEN TRUE
    ELSE IF Head(a) # Head(b) THEN Head(a) < Head(b)
    ELSE bytes_less(Tail(a), Tail(b))

\* the comparator given to sort_by: a.file_name().cmp(b.file_name()) is Less
file_name_less(a, b) == bytes_less(NameBytes(a), NameBytes(b))

RECURSIVE insert_sorted(_, _)
insert_sorted(sorted, e) ==
    IF sorted = <<>> THEN <<e>>
    ELSE IF file_name_less(e, Head(sorted)) THEN <<e>> \o sorted
    ELSE <<Head(sorted)>> \o insert_sorted(Tail(sorted), e)

\* WalkDir::sort_by on the entries of the directory
RECURSIVE sort_by(_)
sort_by(entries) ==
    IF entries = <<>> THEN <<>>
    ELSE insert_sorted(sort_by(SubSeq(entries, 1, Len(entries) - 1)), entries[Len(entries)])

\* e.file_name().to_string_lossy().ends_with(".toml")
ends_with_toml(n) ==
    LET b == NameBytes(n) IN
    /\ Len(b) >= 5
    /\ SubSeq(b, Len(b) - 4, Len(b)) = <<46, 116, 111, 109, 108>>

\* the walker without its sort_by
walk_unsorted(entries) == SelectSeq(entries, ends_with_toml)

\* the entries the walker yields: sorted, then filtered
walk(entries) == SelectSeq(sort_by(entries), ends_with_toml)

\* the orders in which the file system can list a directory of at most MaxEntries files
Listings == UNION {Orders(S) : S \in {T \in SUBSET FileNames : Cardinality(T) <= MaxEntries}}

\* entry.path()
entry_path(dir, n) == dir \o "/" \o n

\* Path::new(root_dir).join("build/tools/defaults.toml"), absent or with its lines
NoFile == [absent |-> TRUE]

Content(lines) == [lines |-> lines]

PrevFiles == {NoFile, Content(<<Line(<<"x", "y">>, Integer(0)), Line(<<"x", "z">>, Integer(0))>>)}

(***************************************************************************)
(* build_variant, generate_defaults_toml                                   *)
(***************************************************************************)
VarEmitManifest ==
    /\ pc = "var_begin"
    /\ stdout' = Append(stdout, RerunIfChanged(manifest_file))
    /\ Goto("var_manifest")
    /\ UNCHANGED <<args, exit_code, reads, manifest, backend, prev_file>>
    /\ UNCHANGED pkgVars
    /\ UNCHANGED defVars

\* ManifestInfo::new(cargo_manifest_dir.join(manifest_file))
VarReadManifest ==
    /\ pc = "var_manifest"
    /\ \/ /\ Fail(Error("ManifestParse"))
          /\ UNCHANGED <<manifest, reads>>
       \/ /\ \E sa \in Option(SupportedSets),
                dd \in Option({"defaults.d"}),
                ip \in Option({<<"pkg">>}) :
                manifest' = Some([supported_arches |-> sa, defaults_dir |-> dd,
                                  included_packages |-> ip])
          /\ reads' = reads \cup {manifest_file}
          /\ Goto("var_arch")
    /\ UNCHANGED <<args, exit_code, stdout, backend, prev_file>>
    /\ UNCHANGED pkgVars
    /\ UNCHANGED defVars

\* supported_arch(&manifest, arch)?
VarSupportedArch ==
    /\ pc = "var_arch"
    /\ LET m == manifest.some IN
       \E listed \in (IF IsSome(m.supported_arches) THEN Orders(m.supported_arches.some) ELSE {<<>>}) :
          LET e == supported_arch(m, args.arch, listed) IN
          IF e # NoErr THEN Fail(e) ELSE Goto("gen_walk")
    /\ UNCHANGED <<args, exit_code, stdout, reads, manifest, backend, prev_file>>
    /\ UNCHANGED pkgVars
    /\ UNCHANGED defVars

\* the accumulator's first value: Value::Table(Map::new())
new_defaults == Table(EmptyMap)

\* generate_defaults_toml: the walker is built over the directory, defaults is created
GenWalk ==
    /\ pc = "gen_walk"
    /\ IF ~IsSome(manifest.some.defaults_dir)
       THEN Goto("var_build") /\ UNCHANGED <<dir_listing, walker, defaults>>
       ELSE /\ \E listing \in Listings :
                  /\ dir_listing' = listing
                  /\ walker' = walk(listing)
            /\ defaults' = new_defaults
            /\ Goto("gen_next")
    /\ UNCHANGED <<args, exit_code, stdout, reads, manifest, backend, prev_file>>
    /\ UNCHANGED pkgVars
    /\ UNCHANGED <<cur, frag_data, file, wbuf>>

\* `for entry in walker`: the loop ends, the walker fails, or the entry's signal is printed
GenNext ==
    /\ pc = "gen_next"
    /\ \/ /\ Fail(Error("ListFiles"))
          /\ UNCHANGED <<walker, cur, stdout>>
       \/ /\ walker = <<>>
          /\ Goto("gen_write")
          /\ UNCHANGED <<walker, cur, stdout>>
       \/ /\ walker # <<>>
          /\ cur' = Head(walker)
          /\ walker' = Tail(walker)
          /\ stdout' = Append(stdout, RerunIfChanged(entry_path(manifest.some.defaults_dir.some, Head(walker))))
          /\ Goto("gen_read")
    /\ UNCHANGED <<args, exit_code, reads, manifest, backend, prev_file>>
    /\ UNCHANGED pkgVars
    /\ UNCHANGED <<dir_listing, frag_data, defaults, file, wbuf>>

\* fs::read_to_string(entry.path())
GenRead ==
    /\ pc = "gen_read"
    /\ \/ /\ Fail([kind |-> "File", op |-> "read", path |-> entry_path(manifest.some.defaults_dir.some, cur)])
          /\ UNCHANGED <<frag_data, reads>>
       \/ /\ \E data \in FragmentTexts : frag_data' = (cur :> data) @@ frag_data
          /\ reads' = reads \cup {entry_path(manifest.some.defaults_dir.some, cur)}
          /\ Goto("gen_merge")
    /\ UNCHANGED <<args, exit_code, stdout, manifest, backend, prev_file>>
    /\ UNCHANGED pkgVars
    /\ UNCHANGED <<dir_listing, walker, cur, defaults, file, wbuf>>

\* toml::from_str(&data)? and merge_values(&mut defaults, &value)?
GenMerge ==
    /\ pc = "gen_merge"
    /\ LET value == from_str(frag_data[cur]) IN
       IF value = TomlErr
       THEN /\ Fail([kind |-> "TomlDeserialize", path |-> entry_path(manifest.some.defaults_dir.some, cur)])
            /\ UNCHANGED defaults
       ELSE LET merged == merge_values(defaults, value) IN
            IF merged = MergeErr
            THEN Fail(Error("TomlMerge")) /\ UNCHANGED defaults
            ELSE defaults' = merged /\ Goto("gen_next")
    /\ UNCHANGED <<args, exit_code, stdout, reads, manifest, backend, prev_file>>
    /\ UNCHANGED pkgVars
    /\ UNCHANGED <<dir_listing, walker, cur, frag_data, file, wbuf>>

\* toml::to_string(&defaults) and fs::write(&path, data): the file is created or truncated
GenWriteOpen ==
    /\ pc = "gen_write"
    /\ \/ /\ Fail([kind |-> "File", op |-> "write", path |-> "build/tools/defaults.toml"])
          /\ UNCHANGED <<file, wbuf>>
       \/ /\ file' = Content(<<>>)
          /\ wbuf' = to_string(defaults)
          /\ Goto(IF to_string(defaults) = <<>> THEN "var_build" ELSE "gen_writing")
    /\ UNCHANGED <<args, exit_code, stdout, reads, manifest, backend, prev_file>>
    /\ UNCHANGED pkgVars
    /\ UNCHANGED <<dir_listing, walker, cur, frag_data, defaults>>

\* fs::write, write_all: the next part of the data reaches the file, or the write fails
GenWriteChunk ==
    /\ pc = "gen_writing"
    /\ \/ /\ Fail([kind |-> "File", op |-> "write", path |-> "build/tools/defaults.toml"])
          /\ UNCHANGED <<file, wbuf>>
       \/ /\ file' = Content(Append(file.lines, Head(wbuf)))
          /\ wbuf' = Tail(wbuf)
          /\ Goto(IF Tail(wbuf) = <<>> THEN "var_build" ELSE "gen_writing")
    /\ UNCHANGED <<args, exit_code, stdout, reads, manifest, backend, prev_file>>
    /\ UNCHANGED pkgVars
    /\ UNCHANGED <<dir_listing, walker, cur, frag_data, defaults>>

\* the build attempted whatever the manifest includes
has_included_packages_always(m) == TRUE

\* manifest.included_packages().is_some()
has_included_packages(m) == IsSome(m.included_packages)

skip_warning == Warning("No included packages in manifest. Skipping variant build.")

\* DockerBuild::new_variant(args, &manifest)?.build()?, or the warning
VarBuild ==
    /\ pc = "var_build"
    /\ IF has_included_packages(manifest.some)
       THEN /\ \/ /\ Fail(Error("BuilderInstantiation"))
                  /\ UNCHANGED backend
               \/ /\ backend' = Some([kind |-> "variant", image_features |-> {}])
                  /\ \/ Fail(Error("BuildAttempt"))
                     \/ Goto("exit")
            /\ UNCHANGED stdout
       ELSE /\ stdout' = Append(stdout, skip_warning)
            /\ Goto("exit")
            /\ UNCHANGED backend
    /\ UNCHANGED <<args, exit_code, reads, manifest, prev_file>>
    /\ UNCHANGED pkgVars
    /\ UNCHANGED defVars

\* the enclosing build system terminates the process, at any point of the run
Kill ==
    /\ pc \notin {"done", "killed"}
    /\ pc' = "killed"
    /\ UNCHANGED <<args, err, exit_code, stdout, reads, manifest, backend, prev_file>>
    /\ UNCHANGED pkgVars
    /\ UNCHANGED defVars

(***************************************************************************)
(* The specifications                                                      *)
(***************************************************************************)
Init ==
    /\ pc = "run"
    /\ args \in [command : {"BuildPackage", "BuildVariant"}, arch : Arches]
    /\ err = NoErr
    /\ exit_code = None
    /\ stdout = <<>>
    /\ reads = {}
    /\ variant_manifest = None
    /\ manifest = None
    /\ image_features = None
    /\ fetched = FALSE
    /\ vend_queue = <<>>
    /\ vendored = 0
    /\ crawled = FALSE
    /\ backend = None
    /\ dir_listing = <<>>
    /\ walker = <<>>
    /\ cur = ""
    /\ frag_data = EmptyMap
    /\ defaults = new_defaults
    /\ prev_file \in PrevFiles
    /\ file = prev_file
    /\ wbuf = <<>>

Next ==
    \/ Run
    \/ PkgEmitManifest
    \/ PkgReadVariantManifest
    \/ PkgSupportedArch
    \/ PkgReadManifest
    \/ PkgEmitFeatureEnv
    \/ PkgFilterFeatures
    \/ PkgSensitivity
    \/ PkgFetch
    \/ PkgVendor
    \/ PkgCrawl
    \/ PkgEmitSpec
    \/ PkgParseSpec
    \/ PkgBuild
    \/ VarEmitManifest
    \/ VarReadManifest
    \/ VarSupportedArch
    \/ GenWalk
    \/ GenNext
    \/ GenRead
    \/ GenMerge
    \/ GenWriteOpen
    \/ GenWriteChunk
    \/ VarBuild
    \/ Exit

Spec == Init /\ [][Next]_vars

\* the same program, which the enclosing build system may terminate at any point
SpecKill == Init /\ [][Next \/ Kill]_vars

(***************************************************************************)
(* Properties                                                              *)
(***************************************************************************)
IsPackage == args.command = "BuildPackage"

IsVariant == args.command = "BuildVariant"

\* the package manifest has been read
PkgManifestRead == IsPackage /\ IsSome(manifest)

\* the loop over package_features has run
FeatureEnvEmitted == PkgManifestRead /\ pc # "pkg_feature_env"

\* the ambient set has been filtered
FeaturesFiltered == PkgManifestRead /\ pc \notin {"pkg_feature_env", "pkg_filter"}

\* the sensitivity block has run
SensitivityResolved == PkgManifestRead /\ pc \notin {"pkg_feature_env", "pkg_filter", "pkg_sensitivity"}

\* C1: the feature set of the package build holds exactly the names of V that
\* are in P; without P the negotiated set is empty, without V it is absent.
C1_Negotiation ==
    /\ FeaturesFiltered =>
          LET V == variant_manifest.some.image_features
              P == manifest.some.package_features
          IN  /\ ~IsSome(V) => image_features = None
              /\ IsSome(V) /\ ~IsSome(P) => image_features = Some({})
              /\ IsSome(V) /\ IsSome(P) => image_features = Some(V.some \cap P.some)
    /\ IsPackage /\ IsSome(backend) =>
          LET V == variant_manifest.some.image_features
              P == manifest.some.package_features
              handed == backend.some.image_features
          IN  /\ handed = (IF IsSome(V) /\ IsSome(P) THEN V.some \cap P.some ELSE {})
              /\ IsSome(V) => handed \subseteq V.some
              /\ IsSome(P) => handed \subseteq P.some

C1_Witness ==
    /\ IsPackage /\ IsSome(backend)
    /\ variant_manifest.some.image_features = Some({"a", "b"})
    /\ manifest.some.package_features = Some({"a"})
    /\ backend.some.image_features = {"a"}

FeatureSignal(f) == [k |-> "rerun-if-env-changed", v |-> "BUILDSYS_VARIANT_IMAGE_FEATURE_" \o f]

\* C2: once the package manifest is read, each tracked feature has exactly one
\* BUILDSYS_VARIANT_IMAGE_FEATURE_<name> signal and no other feature has one,
\* whatever the variant declares; the signals are there when the ambient set
\* is still unfiltered.
C2_FeatureSignals ==
    \A f \in Features :
       /\ ~FeatureEnvEmitted => Count(stdout, FeatureSignal(f)) = 0
       /\ FeatureEnvEmitted =>
             LET P == manifest.some.package_features
             IN  Count(stdout, FeatureSignal(f)) = (IF IsSome(P) /\ f \in P.some THEN 1 ELSE 0)
       /\ pc = "pkg_filter" =>
             /\ image_features = variant_manifest.some.image_features
             /\ FeatureEnvEmitted

C2_Witness ==
    /\ pc = "pkg_filter"
    /\ variant_manifest.some.image_features = None
    /\ manifest.some.package_features = Some({"a", "b"})
    /\ Count(stdout, FeatureSignal("a")) = 1
    /\ Count(stdout, FeatureSignal("b")) = 1

\* the manifest whose supported-arches the pipeline checks
GateManifest == IF IsPackage THEN variant_manifest ELSE manifest

BeforeGate == pc \in {"run", "pkg_begin", "pkg_variant_manifest", "pkg_arch", "var_begin", "var_manifest", "var_arch"}

WriteStarted == file # prev_file

\* a cache fetch, a vendoring, a write of the defaults file or a backend invocation
ExpensiveDone == fetched \/ vendored > 0 \/ WriteStarted \/ IsSome(backend)

\* C3: nothing expensive happens before the architecture gate; a declared set
\* without the requested architecture ends the run with UnsupportedArch, which
\* names the architecture and the whole set, and nothing expensive is done in
\* that run; without a declared set every architecture passes.
C3_ArchGate ==
    /\ BeforeGate => ~ExpensiveDone
    /\ err.kind = "UnsupportedArch" =>
          /\ ~ExpensiveDone
          /\ pc \in {"exit", "done"}
          /\ IsSome(GateManifest) /\ IsSome(GateManifest.some.supported_arches)
          /\ args.arch \notin GateManifest.some.supported_arches.some
          /\ err.arch = args.arch
          /\ Range(err.supported_arches) = GateManifest.some.supported_arches.some
          /\ Len(err.supported_arches) = Cardinality(GateManifest.some.supported_arches.some)
    /\ IsSome(GateManifest) /\ ~BeforeGate =>
          LET sa == GateManifest.some.supported_arches
          IN  (err.kind = "UnsupportedArch") <=> (IsSome(sa) /\ args.arch \notin sa.some)

C3_Witness ==
    /\ pc = "done"
    /\ err = [kind |-> "UnsupportedArch", arch |-> "armv7", supported_arches |-> <<"x86_64", "arm64">>]
    /\ exit_code = Some(1)

\* the defaults file holds the whole serialized accumulator
DefaultsWritten == file = Content(to_string(defaults)) /\ walker = <<>> /\ wbuf = <<>> /\ WriteStarted

\* C4: a variant without included packages still gets its defaults file, gets
\* the skip warning, no backend invocation, and ends successfully; with the
\* list declared the backend is invoked only after the aggregation is complete.
C4_VariantBuild ==
    IsVariant /\ IsSome(manifest) =>
       LET m == manifest.some IN
       /\ ~IsSome(m.included_packages) =>
             /\ backend = None
             /\ pc = "done" /\ err = NoErr =>
                   /\ Count(stdout, skip_warning) = 1
                   /\ exit_code = Some(0)
                   /\ IsSome(m.defaults_dir) => DefaultsWritten
             /\ skip_warning \in Range(stdout) => err = NoErr
       /\ IsSome(m.included_packages) => skip_warning \notin Range(stdout)
       /\ IsSome(backend) =>
             /\ IsSome(m.included_packages)
             /\ IsSome(m.defaults_dir) => DefaultsWritten
             /\ ~IsSome(m.defaults_dir) => file = prev_file

C4_Witness ==
    /\ IsVariant /\ pc = "done" /\ err = NoErr
    /\ manifest.some.included_packages = None
    /\ IsSome(manifest.some.defaults_dir)
    /\ file = Content(<<Line(<<"x", "y">>, Integer(3)), Line(<<"x", "z">>, Integer(2))>>)
    /\ skip_warning \in Range(stdout)
    /\ backend = None

\* C5: when the process is terminated, the defaults file holds its previous
\* content or the complete new document.
C5_AtomicReplace ==
    pc = "killed" => file = prev_file \/ file = Content(to_string(defaults))

\* C6: every path that was read has exactly one rerun-if-changed signal: never
\* two, and one when the run has ended well.
C6_ExactlyOnce ==
    /\ \A p \in reads : Count(stdout, RerunIfChanged(p)) <= 1
    /\ pc = "done" /\ err = NoErr =>
          \A p \in reads : Count(stdout, RerunIfChanged(p)) = 1

VariantEnv(name) == [k |-> "rerun-if-env-changed", v |-> name]

VariantEnvNames == {"BUILDSYS_VARIANT", "BUILDSYS_VARIANT_PLATFORM", "BUILDSYS_VARIANT_RUNTIME", "BUILDSYS_VARIANT_FAMILY", "BUILDSYS_VARIANT_FLAVOR"}

IsVariantEnv(l) == l.k = "rerun-if-env-changed" /\ \A f \in Features : l # FeatureSignal(f)

\* the sensitivity signals the claim names, per declaration
ExpectedSensitivity(vs) ==
    IF vs = None \/ vs = Some([any |-> FALSE]) THEN <<>>
    ELSE IF vs = Some([any |-> TRUE]) THEN <<VariantEnv("BUILDSYS_VARIANT")>>
    ELSE IF vs = Some([specific |-> "Platform"]) THEN <<VariantEnv("BUILDSYS_VARIANT_PLATFORM")>>
    ELSE IF vs = Some([specific |-> "Runtime"]) THEN <<VariantEnv("BUILDSYS_VARIANT_RUNTIME")>>
    ELSE IF vs = Some([specific |-> "Family"]) THEN <<VariantEnv("BUILDSYS_VARIANT_FAMILY")>>
    ELSE <<VariantEnv("BUILDSYS_VARIANT_FLAVOR")>>

\* C7: the sensitivity block prints nothing for an absent declaration and for
\* Any(false), BUILDSYS_VARIANT for Any(true), and the one variable of its kind
\* for Specific(kind); it never fails and never prints two.
C7_Sensitivity ==
    LET printed == SelectSeq(stdout, IsVariantEnv) IN
    /\ ~SensitivityResolved => printed = <<>>
    /\ SensitivityResolved =>
          /\ printed = ExpectedSensitivity(manifest.some.variant_sensitive)
          /\ Len(printed) <= 1
          /\ \A i \in DOMAIN printed : printed[i].v \in VariantEnvNames
    /\ pc = "pkg_fetch" => err = NoErr

C7_Witness ==
    /\ pc = "done" /\ err = NoErr
    /\ PkgManifestRead
    /\ manifest.some.variant_sensitive = Some([specific |-> "Family"])
    /\ SelectSeq(stdout, IsVariantEnv) = <<VariantEnv("BUILDSYS_VARIANT_FAMILY")>>

\* the .toml names of the directory, in ascending file-name order
AscendingTomlNames == <<"10-b.toml", "20-a.toml", "9-c.toml">>

\* the fragments of the listed directory, in ascending file-name order
Fragments == SelectSeq(AscendingTomlNames, LAMBDA n : n \in Range(dir_listing))

\* the deep-merge fold of the fragments over acc
RECURSIVE MergeFold(_, _)
MergeFold(acc, names) ==
    IF names = <<>> THEN acc
    ELSE MergeFold(merge_values(acc, from_str(frag_data[Head(names)])), Tail(names))

\* generate_defaults_toml has returned Ok with a defaults directory declared
DefaultsGenerated ==
    /\ IsVariant /\ IsSome(manifest) /\ IsSome(manifest.some.defaults_dir)
    /\ \/ pc = "var_build"
       \/ IsSome(backend)
       \/ skip_warning \in Range(stdout)
       \/ err.kind \in {"BuilderInstantiation", "BuildAttempt"}

\* the fragments (by position in Fragments) that give a value at this key path
Holders(path) == {i \in DOMAIN Fragments : \E l \in Range(frag_data[Fragments[i]]) : l.path = path}

Last(S) == CHOOSE i \in S : \A j \in S : j <= i

\* C8: the written document is the deep-merge fold, from the empty table, of
\* the .toml fragments in ascending file-name order, whatever the listing
\* order: at a key path the fragment with the latest name wins, and keys of
\* earlier fragments are kept.
C8_DefaultsFold ==
    DefaultsGenerated =>
       /\ DOMAIN frag_data = Range(Fragments)
       /\ from_str(file.lines) = MergeFold(Table(EmptyMap), Fragments)
       /\ \A line \in Range(file.lines) :
             /\ Holders(line.path) # {}
             /\ line \in Range(frag_data[Fragments[Last(Holders(line.path))]])
       /\ \A i \in DOMAIN Fragments : \A l \in Range(frag_data[Fragments[i]]) :
             \E line \in Range(file.lines) : line.path = l.path

C8_Witness ==
    /\ DefaultsGenerated
    /\ dir_listing = <<"20-a.toml", "15.toml.bak", "10-b.toml">>
    /\ frag_data["10-b.toml"] = <<Line(<<"x", "y">>, Integer(1)), Line(<<"x", "z">>, Integer(2))>>
    /\ frag_data["20-a.toml"] = <<Line(<<"x", "y">>, Integer(3))>>
    /\ file = Content(<<Line(<<"x", "y">>, Integer(3)), Line(<<"x", "z">>, Integer(2))>>)

\* the failures after which the backend must not have been invoked
AbortingKinds == {"ManifestParse", "UnsupportedArch", "ExternalFileFetch", "GoMod", "ProjectCrawl", "SpecParse", "ListFiles", "File", "TomlDeserialize", "TomlMerge"}

C9_AbortState ==
    /\ err # NoErr => pc \in {"exit", "done"}
    /\ err.kind \in AbortingKinds => backend = None
    /\ (err.kind \in {"ListFiles", "TomlDeserialize", "TomlMerge"} \/ (err.kind = "File" /\ err.op = "read"))
          => file = prev_file
    /\ pc = "done" => exit_code = Some(IF err = NoErr THEN 0 ELSE 1)
    /\ pc # "done" => exit_code = None

C9_AbortStep ==
    err # NoErr =>
       UNCHANGED <<args, err, stdout, reads, variant_manifest, manifest, image_features,
                   fetched, vend_queue, vendored, crawled, backend, dir_listing, walker,
                   cur, frag_data, defaults, prev_file, file, wbuf>>

\* C9: a failing step ends the pipeline: once an error is raised nothing but
\* main's exit happens, the backend is not invoked after a failure before it,
\* a failing fragment leaves the defaults file unwritten, and the exit status
\* is non-zero.
C9_Abort == []C9_AbortState /\ [][C9_AbortStep]_vars

C9_Witness ==
    /\ pc = "done"
    /\ err.kind = "TomlMerge"
    /\ exit_code = Some(1)
    /\ prev_file # NoFile
    /\ file = prev_file
    /\ backend = None
    /\ Cardinality(DOMAIN frag_data) = 2

\* C10: the manifest signal precedes fetch and vendoring; when the backend is
\* invoked or the defaults file is written, every input consumed so far has its
\* signal; a fragment has its signal before it is read.
C10_SignalsFirst ==
    /\ (fetched \/ vendored > 0) => RerunIfChanged("Cargo.toml") \in Range(stdout)
    /\ IsPackage /\ IsSome(backend) =>
          /\ \A f \in unwrap_or_default(manifest.some.package_features) : FeatureSignal(f) \in Range(stdout)
          /\ SelectSeq(stdout, IsVariantEnv) = ExpectedSensitivity(manifest.some.variant_sensitive)
    /\ \A n \in DOMAIN frag_data : RerunIfChanged("defaults.d/" \o n) \in Range(stdout)
    /\ (IsSome(backend) \/ WriteStarted) =>
          \A p \in reads : RerunIfChanged(p) \in Range(stdout)

\* C10, without the variant manifest that build_package reads: these orderings hold.
C10_SignalsFirstButVariantManifest ==
    /\ (fetched \/ vendored > 0) => RerunIfChanged("Cargo.toml") \in Range(stdout)
    /\ IsPackage /\ IsSome(backend) =>
          /\ \A f \in unwrap_or_default(manifest.some.package_features) : FeatureSignal(f) \in Range(stdout)
          /\ SelectSeq(stdout, IsVariantEnv) = ExpectedSensitivity(manifest.some.variant_sensitive)
    /\ \A n \in DOMAIN frag_data : RerunIfChanged("defaults.d/" \o n) \in Range(stdout)
    /\ \A p \in reads \ {"variants/v/Cargo.toml"} : RerunIfChanged(p) \in Range(stdout)

=============================================================================
